---- MODULE Spec2Model ----
(***************************************************************************)
(* XDash launcher (src/xdash.py): the emulator launch sequence, the window *)
(* capture engine (WindowCapture), the process lifecycle monitor and the   *)
(* controller input handler, as three kinds of concurrently running        *)
(* threads: the Tk UI thread ("ui"), the controller poll thread ("poll",   *)
(* which runs App.handle_controller_state as its callback) and one capture *)
(* worker thread per start_capture call.                                   *)
(***************************************************************************)
EXTENDS Integers, FiniteSets, Sequences, TLC

\* ---------------------------------------------------------------- bounds
\* Number of emulator processes that may be spawned in one behaviour, and of
\* capture workers that may be started in it.
MaxProcs == 2

\* Number of inputs (a button held, an axis off its rest position) that one
\* hardware reading of a controller has at most.
MaxActive == 1

\* Time units the clock runs for after the poll loop has started.
MaxElapsed == 6

\* Number of capture attempts the capture loop makes when it runs alone.
MaxFrames == 12

\* Number of top-level windows EnumWindows enumerates.
MaxWindows == 3

\* ------------------------------------------------------ program constants
\* _capture_loop: max_failures = 10
max_failures == 10
\* setup_window_capture: for attempt in range(30)
find_attempts == 30
\* WindowCapture.__init__: frame_time = 1.0 / fps, and the 0.1 s the capture
\* loop sleeps after an exception (6 frames at 60 fps), in clock units of half
\* a frame.
frame_time == 2
except_sleep == 12
\* _poll_loop: scan_interval = 2.0
scan_interval == 2
\* time.time() when the poll loop starts: seconds since 1970, far more than
\* scan_interval.
StartTime == scan_interval + 1

None == 0
\* No value yet: the call has not been made.
NotCalled == None - 1
Pids == 1..MaxProcs
Workers == 1..MaxProcs
Threads == {"ui", "poll"}
\* focusable_widgets, in navigation order (create_hdd_content_widgets)
contentDropdown == 0
setDefaultButtonTop == 1
netplayCheckbox == 2
launchButton == 3
NumWidgets == 4

\* ControllerManager: the button and axis names of a controller state
ButtonNames == {"a", "b", "x", "y", "back", "start", "leftshoulder",
                "rightshoulder", "leftstick", "rightstick", "dpup", "dpdown",
                "dpleft", "dpright"}
StickNames == {"leftx", "lefty", "rightx", "righty"}
TriggerNames == {"lefttrigger", "righttrigger"}
AxisNames == StickNames \cup TriggerNames
\* XINPUT_GAMEPAD: sThumb* are SHORT (16 bits, signed), b*Trigger are BYTE
ShortMin == -32768
ShortMax == 32767
ByteMax == 255
\* the divisors of the normalisations
StickScale == 32767
SdlNegScale == 32768
TriggerScale == 255

VARIABLES
    \* --- environment: the operating system
    proc,              \* [pid -> "none" | "running" | "exited"]
    hasWindow,         \* [pid -> BOOLEAN]: the process owns a locatable window
    \* --- App
    xenia_process,     \* None or the pid of the Popen handle
    xenia_hwnd,        \* None or the window handle (named by its owner pid)
    is_capturing,
    is_xenia_running,
    display,           \* "menu" | "game": which container is placed
    focus_index,
    cooling,           \* time() - last_controller_input_time < input_cooldown
    \* --- WindowCapture
    capturing,
    target_hwnd,
    capture_thread,    \* None or the worker of the last start_capture
    callback,          \* TRUE once a callback is set
    wpc,               \* [worker -> position in _capture_loop]
    fails,             \* [worker -> consecutive_failures]
    \* --- the ui and poll threads
    pc,                \* [thread -> position]
    ret,               \* [thread -> position to continue at on return]
    attempt,           \* [thread -> attempt of setup_window_capture's loop]
    posOk,             \* [thread -> result of position_window_for_capture]
    btn,               \* controller state being handled by the poll thread
    \* --- history
    clean,             \* [thread -> its last launch began idle, none since]
    spawns,            \* processes spawned by the last controller update
    timers,            \* pending after(...) timers of monitor_xenia_processes
    \* --- App: dialogs
    popup,             \* title of the error popup on screen, or "none"
    \* --- ControllerManager
    controller_type,   \* "any" | "xinput" | "sdl"
    running,           \* the poll loop's flag
    ppc,               \* position of the poll thread in _poll_loop
    xinput,            \* what XInputGetState reads for slot 0
    sdl,               \* what the SDL game controller 0 reads
    state,             \* the state get_controller_state returned last
    caught,            \* history: _poll_loop has caught an exception
    now,               \* time.time()
    current_time,      \* _poll_loop's local
    last_scan_time,    \* _poll_loop's local
    scanned,           \* history: backends scanned so far
    queried,           \* history: backends queried for a state so far
    closed,            \* stop_polling has closed the SDL handles and quit SDL
    late,              \* history: what _poll_loop did after stop_polling
    \* --- _capture_loop running alone
    fpc,                     \* position of the capture worker
    print_window_available,  \* hasattr(ctypes.windll.user32, 'PrintWindow')
    pw_ok,                   \* PrintWindow would give an image this frame
    mss_ok,                  \* MSS would give an image this frame
    img,                     \* the method that gave the last image, or "none"
    tried,                   \* history: the methods the last capture tried
    last_capture_time,
    frame_current_time,      \* _capture_loop's local current_time
    consecutive_failures,
    attempt_at,              \* history: start of the last capture attempt
    attempts,                \* history: number of capture attempts
    \* --- find_xenia_window on an enumeration of windows
    windows,                 \* what EnumWindows enumerates, in its order
    target_pid,              \* the argument of find_xenia_window
    hwnds,                   \* NotCalled, then what the call returns
    \* --- what launch_selected_rom reads
    selected_name,           \* selected_hdd_content.get()
    hdd_content,             \* the names the catalog has
    exe_exists,              \* current_exe_path.exists()
    content_exists           \* the selected name's content file exists

vars == <<proc, hasWindow, xenia_process, xenia_hwnd, is_capturing,
          is_xenia_running, display, focus_index, cooling, capturing,
          target_hwnd, capture_thread, callback, wpc, fails, pc, ret,
          attempt, posOk, btn, clean, spawns, timers,
          popup, controller_type, running, ppc,
          xinput, sdl, state, caught, now, current_time, last_scan_time,
          scanned, queried, closed, late, fpc, print_window_available, pw_ok, mss_ok, img,
          tried, last_capture_time, frame_current_time, consecutive_failures,
          attempt_at, attempts, windows, target_pid, hwnds, selected_name,
          hdd_content, exe_exists, content_exists>>

envVars == <<proc, hasWindow>>
appVars == <<xenia_process, xenia_hwnd, is_capturing, is_xenia_running,
             display, focus_index, cooling>>
engVars == <<capturing, target_hwnd, capture_thread, callback, wpc, fails>>
thrVars == <<pc, ret, attempt, posOk, btn>>
histVars == <<clean>>
dlgVars == <<popup>>
hwVars == <<controller_type, xinput, sdl, closed>>
clockVars == <<now, current_time, last_scan_time>>
askVars == <<scanned, queried, late>>
shotVars == <<print_window_available, pw_ok, mss_ok, img, tried>>
frameVars == <<fpc, shotVars, last_capture_time, frame_current_time,
               consecutive_failures, attempt_at, attempts>>
findVars == <<windows, target_pid, hwnds>>
installVars == <<selected_name, hdd_content, exe_exists, content_exists>>
ctlVars == <<hwVars, running, ppc, state, caught, clockVars, askVars,
             frameVars, findVars, installVars>>
padVars == <<ctlVars, spawns, timers>>

Buttons == [a : BOOLEAN, start : BOOLEAN, back : BOOLEAN, nav : {-1, 0, 1}]
NoButtons == [a |-> FALSE, start |-> FALSE, back |-> FALSE, nav |-> 0]

Other(t) == IF t = "ui" THEN "poll" ELSE "ui"

LiveProcs == {p \in Pids : proc[p] = "running"}
LiveWorkers == {w \in Workers : wpc[w] \notin {"none", "dead"}}
FreePids == {p \in Pids : proc[p] = "none"}
FreeWorkers == {w \in Workers : wpc[w] = "none"}
Min(S) == CHOOSE x \in S : \A y \in S : x <= y

\* ======================================================= controller state

\* An axis value: the fraction n / d (d > 0) that the float stands for.
Rat(n, d) == [n |-> n, d |-> d]
Zero == Rat(0, 1)
Neg(v) == Rat(0 - v.n, v.d)
Abs(v) == Rat(IF v.n < 0 THEN 0 - v.n ELSE v.n, v.d)
Less(v, w) == v.n * w.d < w.n * v.d
Same(v, w) == v.n * w.d = w.n * v.d

EmptyDict == [k \in {} |-> FALSE]

\* get_controller_state: the state it starts from
EmptyState ==
    [connected |-> FALSE, type |-> "none", buttons |-> EmptyDict,
     axes |-> EmptyDict]

\* What the hardware reads with nothing plugged in / nothing touched.
XDisconnected ==
    [connected |-> FALSE, wButtons |-> {},
     thumb |-> [a \in StickNames |-> 0], trigger |-> [a \in TriggerNames |-> 0]]
XRest == [XDisconnected EXCEPT !.connected = TRUE]
SDisconnected ==
    [connected |-> FALSE, button |-> {}, axis |-> [a \in AxisNames |-> 0]]
SRest == [SDisconnected EXCEPT !.connected = TRUE]

\* ctypes reads a BYTE field (wintypes.BYTE is c_byte) as a signed 8-bit
\* integer.
SignedByte(b) == IF b > 127 THEN b - 256 ELSE b

\* deadzone = 0.2
deadzone == Rat(1, 5)

\* A faulty _apply_deadzone that also clears a value equal to the deadzone.
_apply_deadzone_inclusive(value, dz) ==
    IF Less(dz, Abs(value)) THEN value ELSE Zero

\* _apply_deadzone(value, deadzone)
_apply_deadzone(value, dz) ==
    IF Less(Abs(value), dz) THEN Zero ELSE value

\* _get_xinput_state(0) on the reading hw; {'connected': False} has no
\* buttons and no axes.
_get_xinput_state(hw) ==
    IF hw.connected
    THEN [connected |-> TRUE,
          buttons |-> [b \in ButtonNames |-> b \in hw.wButtons],
          axes |-> [a \in AxisNames |->
              CASE a = "leftx" ->
                     _apply_deadzone(Rat(hw.thumb[a], StickScale), deadzone)
                [] a = "lefty" ->
                     _apply_deadzone(Rat(0 - hw.thumb[a], StickScale), deadzone)
                [] a = "rightx" ->
                     _apply_deadzone(Rat(hw.thumb[a], StickScale), deadzone)
                [] a = "righty" ->
                     _apply_deadzone(Rat(0 - hw.thumb[a], StickScale), deadzone)
                [] OTHER -> Rat(SignedByte(hw.trigger[a]), TriggerScale)]]
    ELSE [connected |-> FALSE, buttons |-> EmptyDict, axes |-> EmptyDict]

\* _get_sdl_state: axis_value / 32767.0 if axis_value >= 0 else / 32768.0
SdlAxis(raw) ==
    IF raw >= 0 THEN Rat(raw, StickScale) ELSE Rat(raw, SdlNegScale)

\* _get_sdl_state(0) on the reading hw: buttons by name, lefty / righty
\* inverted, the triggers as (axis + 1.0) / 2.0.
_get_sdl_state(hw) ==
    IF hw.connected
    THEN [connected |-> TRUE,
          buttons |-> [b \in ButtonNames |-> b \in hw.button],
          axes |-> [a \in AxisNames |->
              CASE a \in {"leftx", "rightx"} -> SdlAxis(hw.axis[a])
                [] a \in {"lefty", "righty"} -> Neg(SdlAxis(hw.axis[a]))
                [] OTHER -> Rat(SdlAxis(hw.axis[a]).n + SdlAxis(hw.axis[a]).d,
                                2 * SdlAxis(hw.axis[a]).d)]]
    ELSE [connected |-> FALSE, buttons |-> EmptyDict, axes |-> EmptyDict]

\* A faulty merge that takes the SDL value of every button both report.
MergeStates_sdl_buttons(st, s) ==
    [st EXCEPT
       !.buttons = [b \in DOMAIN st.buttons \cup DOMAIN s.buttons |->
                       IF b \in DOMAIN s.buttons THEN s.buttons[b]
                       ELSE st.buttons[b]]]

\* A faulty merge that takes the SDL value of every axis both report.
MergeStates_sdl_axes(st, s) ==
    [st EXCEPT
       !.axes = [a \in DOMAIN st.axes \cup DOMAIN s.axes |->
                    IF a \in DOMAIN s.axes THEN s.axes[a] ELSE st.axes[a]]]

\* A faulty merge that tags the merged state 'sdl'.
MergeStates_sdl_type(st, s) ==
    [st EXCEPT !.type = "sdl"]

\* get_controller_state: the merge of a connected SDL state into a connected
\* XInput state in mode "any"; the type stays 'xinput'.
MergeStates(st, s) ==
    [st EXCEPT
       !.buttons = [b \in DOMAIN st.buttons \cup DOMAIN s.buttons |->
                       IF b \notin DOMAIN s.buttons THEN st.buttons[b]
                       ELSE IF b \in DOMAIN st.buttons
                       THEN st.buttons[b] \/ s.buttons[b]
                       ELSE s.buttons[b]],
       !.axes = [a \in DOMAIN st.axes \cup DOMAIN s.axes |->
                    IF a \notin DOMAIN s.axes THEN st.axes[a]
                    ELSE IF a \in DOMAIN st.axes
                    THEN IF Less(Abs(st.axes[a]), Abs(s.axes[a]))
                         THEN s.axes[a] ELSE st.axes[a]
                    ELSE s.axes[a]]]

\* get_controller_state: after the XInput part
AfterXInput(ct, xhw) ==
    IF ct \in {"any", "xinput"} /\ _get_xinput_state(xhw).connected
    THEN [connected |-> TRUE, type |-> "xinput",
          buttons |-> _get_xinput_state(xhw).buttons,
          axes |-> _get_xinput_state(xhw).axes]
    ELSE EmptyState

\* get_controller_state(0) with controller_type ct on the two readings
get_controller_state(ct, xhw, shw) ==
    IF (~AfterXInput(ct, xhw).connected \/ ct = "any")
       /\ ct \in {"any", "sdl"} /\ _get_sdl_state(shw).connected
    THEN IF AfterXInput(ct, xhw).connected /\ ct = "any"
         THEN MergeStates(AfterXInput(ct, xhw), _get_sdl_state(shw))
         ELSE [connected |-> TRUE, type |-> "sdl",
               buttons |-> _get_sdl_state(shw).buttons,
               axes |-> _get_sdl_state(shw).axes]
    ELSE AfterXInput(ct, xhw)

\* No game session: no handle, no live process, no capture, nothing running.
Idle ==
    /\ xenia_process = None
    /\ ~is_capturing
    /\ ~capturing
    /\ LiveProcs = {}
    /\ LiveWorkers = {}
    /\ \A t \in Threads : pc[t] = "idle"

AppInit ==
    /\ proc = [p \in Pids |-> "none"]
    /\ hasWindow = [p \in Pids |-> FALSE]
    /\ xenia_process = None
    /\ xenia_hwnd = None
    /\ is_capturing = FALSE
    /\ is_xenia_running = FALSE
    /\ display = "menu"
    /\ focus_index = 0
    /\ cooling = FALSE
    /\ capturing = FALSE
    /\ target_hwnd = None
    /\ capture_thread = None
    /\ callback = FALSE
    /\ wpc = [w \in Workers |-> "none"]
    /\ fails = [w \in Workers |-> 0]
    /\ pc = [t \in Threads |-> "idle"]
    /\ ret = [t \in Threads |-> "idle"]
    /\ attempt = [t \in Threads |-> 0]
    /\ posOk = [t \in Threads |-> FALSE]
    /\ btn = NoButtons
    /\ clean = [t \in Threads |-> FALSE]
    /\ spawns = 0
    /\ timers = 1
    /\ popup = "none"

\* ControllerManager.__init__: _init_sdl, which scans the SDL controllers, in
\* the modes "any" and "sdl" (SDL2 being installed).
InitBackends(ct) ==
    {b \in {"sdl"} : ct \in {"any", "sdl"}}

\* _poll_loop before its first tick: last_scan_time = 0
LoopInit ==
    /\ caught = FALSE
    /\ now = StartTime
    /\ current_time = 0
    /\ last_scan_time = 0
    /\ scanned = InitBackends(controller_type)
    /\ queried = {}
    /\ closed = FALSE
    /\ late = {}

\* No capture loop runs alone.
FrameNone ==
    /\ fpc = "none"
    /\ pw_ok = FALSE
    /\ mss_ok = FALSE
    /\ img = "none"
    /\ tried = <<>>
    /\ last_capture_time = 0
    /\ frame_current_time = 0
    /\ consecutive_failures = 0
    /\ attempt_at = 0
    /\ attempts = 0

\* No call of find_xenia_window on an enumeration.
FindNone ==
    /\ windows = <<>>
    /\ target_pid = None
    /\ hwnds = NotCalled

\* The catalog holds one content name.
Names == {"dashboard"}

\* create_hdd_content_widgets: the first catalog name is selected; the
\* executable and the content file are in place.
Installed ==
    /\ selected_name = "dashboard"
    /\ hdd_content = Names
    /\ exe_exists = TRUE
    /\ content_exists = TRUE

Init ==
    /\ AppInit
    /\ controller_type = "any"
    /\ running = TRUE
    /\ ppc = "test"
    /\ xinput = XDisconnected
    /\ sdl = SDisconnected
    /\ state = EmptyState
    /\ LoopInit
    /\ Installed
    /\ FrameNone
    /\ FindNone
    /\ print_window_available = TRUE

\* ===================================================== WindowCapture engine

\* threading identity of a caller: a worker is its own id, the ui and poll
\* threads are no capture worker.
Ident(t) == IF t = "ui" THEN -1 ELSE -2

\* capture_window(hwnd): PrintWindow, then MSS; an image when the window can
\* be read, None when both methods fail.
capture_window(hwnd) ==
    hwnd # None /\ hasWindow[hwnd]

\* stop_capture, after capturing = False: what `if self.capture_thread:
\* self.capture_thread.join(timeout=2.0)` does in the calling thread.
\* Thread.join raises RuntimeError when asked to join the current thread.
JoinOutcome(self) ==
    IF capture_thread = None THEN "skip"
    ELSE IF capture_thread = self THEN "raise"
    ELSE "join"

\* Thread.join(timeout=2.0) on worker th returns: th is dead, or 2 s passed,
\* which takes th to be inside a call that can last that long (a capture, or
\* its own join), not at the loop test or in the 0.1 s sleep.
JoinReturns(th) ==
    wpc[th] \in {"dead", "capture", "join"}

\* start_capture(hwnd, callback): no check of a running session, no stop of
\* the previous worker.
start_capture(hwnd) ==
    /\ FreeWorkers # {}
    /\ target_hwnd' = hwnd
    /\ callback' = TRUE
    /\ capturing' = TRUE
    /\ capture_thread' = Min(FreeWorkers)
    /\ wpc' = [wpc EXCEPT ![Min(FreeWorkers)] = "check"]
    /\ fails' = [fails EXCEPT ![Min(FreeWorkers)] = 0]

\* A faulty loop test that does not read the capturing flag.
capture_loop_check_no_flag(w) ==
    /\ wpc[w] = "check"
    /\ wpc' = [wpc EXCEPT ![w] =
                  IF target_hwnd # None THEN "capture" ELSE "dead"]
    /\ UNCHANGED <<envVars, appVars, dlgVars, padVars, thrVars, histVars,
                   capturing, target_hwnd, capture_thread, callback, fails>>

\* _capture_loop: `while self.capturing and self.target_hwnd`
capture_loop_check(w) ==
    /\ wpc[w] = "check"
    /\ wpc' = [wpc EXCEPT ![w] =
                  IF capturing /\ target_hwnd # None THEN "capture" ELSE "dead"]
    /\ UNCHANGED <<envVars, appVars, dlgVars, padVars, thrVars, histVars,
                   capturing, target_hwnd, capture_thread, callback, fails>>

\* A faulty iteration that counts every failure since the start of the
\* session: a frame does not reset the count.
capture_loop_capture_total(w) ==
    /\ wpc[w] = "capture"
    /\ IF capture_window(target_hwnd) /\ callback
       THEN /\ wpc' = [wpc EXCEPT ![w] = "check"]
            /\ UNCHANGED <<capturing, fails>>
       ELSE /\ fails' = [fails EXCEPT ![w] = @ + 1]
            /\ IF fails[w] + 1 >= max_failures
               THEN /\ capturing' = FALSE
                    /\ wpc' = [wpc EXCEPT ![w] =
                                  CASE JoinOutcome(w) = "raise" -> "except"
                                    [] JoinOutcome(w) = "join" -> "join"
                                    [] OTHER -> "check"]
               ELSE /\ wpc' = [wpc EXCEPT ![w] = "check"]
                    /\ UNCHANGED capturing
    /\ UNCHANGED <<envVars, appVars, dlgVars, padVars, thrVars, histVars,
                   target_hwnd, capture_thread, callback>>

\* A faulty iteration that also forgets the target window when it stops the
\* engine.
capture_loop_capture_forgets(w) ==
    /\ wpc[w] = "capture"
    /\ IF capture_window(target_hwnd) /\ callback
       THEN /\ fails' = [fails EXCEPT ![w] = 0]
            /\ wpc' = [wpc EXCEPT ![w] = "check"]
            /\ UNCHANGED <<capturing, target_hwnd>>
       ELSE /\ fails' = [fails EXCEPT ![w] = @ + 1]
            /\ IF fails[w] + 1 >= max_failures
               THEN /\ capturing' = FALSE
                    /\ target_hwnd' = None
                    /\ wpc' = [wpc EXCEPT ![w] =
                                  CASE JoinOutcome(w) = "raise" -> "except"
                                    [] JoinOutcome(w) = "join" -> "join"
                                    [] OTHER -> "check"]
               ELSE /\ wpc' = [wpc EXCEPT ![w] = "check"]
                    /\ UNCHANGED <<capturing, target_hwnd>>
    /\ UNCHANGED <<envVars, appVars, dlgVars, padVars, thrVars, histVars,
                   capture_thread, callback>>

\* _capture_loop: one capture attempt, the callback or the failure count,
\* and the engine's own stop_capture() on reaching max_failures: in the
\* worker that is the engine's capture_thread the join raises, which the
\* loop's except clause catches.
capture_loop_capture(w) ==
    /\ wpc[w] = "capture"
    /\ IF capture_window(target_hwnd) /\ callback
       THEN /\ fails' = [fails EXCEPT ![w] = 0]
            /\ wpc' = [wpc EXCEPT ![w] = "check"]
            /\ UNCHANGED capturing
       ELSE /\ fails' = [fails EXCEPT ![w] = @ + 1]
            /\ IF fails[w] + 1 >= max_failures
               THEN /\ capturing' = FALSE
                    /\ wpc' = [wpc EXCEPT ![w] =
                                  CASE JoinOutcome(w) = "raise" -> "except"
                                    [] JoinOutcome(w) = "join" -> "join"
                                    [] OTHER -> "check"]
               ELSE /\ wpc' = [wpc EXCEPT ![w] = "check"]
                    /\ UNCHANGED capturing
    /\ UNCHANGED <<envVars, appVars, dlgVars, padVars, thrVars, histVars,
                   target_hwnd, capture_thread, callback>>

\* _capture_loop: the worker, having called stop_capture while a newer worker
\* is the engine's capture_thread, returns from join (worker dead or timeout).
capture_loop_join(w) ==
    /\ wpc[w] = "join"
    /\ JoinReturns(capture_thread)
    /\ wpc' = [wpc EXCEPT ![w] = "check"]
    /\ UNCHANGED <<envVars, appVars, dlgVars, padVars, thrVars, histVars,
                   capturing, target_hwnd, capture_thread, callback, fails>>

\* _capture_loop: `except Exception: time.sleep(0.1)`, then the loop test.
capture_loop_except(w) ==
    /\ wpc[w] = "except"
    /\ wpc' = [wpc EXCEPT ![w] = "check"]
    /\ UNCHANGED <<envVars, appVars, dlgVars, padVars, thrVars, histVars,
                   capturing, target_hwnd, capture_thread, callback, fails>>

_capture_loop(w) ==
    \/ capture_loop_check(w)
    \/ capture_loop_capture(w)
    \/ capture_loop_join(w)
    \/ capture_loop_except(w)

\* A faulty stop_capture that joins without clearing the capturing flag.
stop_capture_no_flag(t, here, joining, next) ==
    /\ pc[t] = here
    /\ pc' = [pc EXCEPT ![t] =
                 CASE JoinOutcome(Ident(t)) = "join" -> joining
                   [] JoinOutcome(Ident(t)) = "raise" -> "raised"
                   [] OTHER -> next]
    /\ UNCHANGED <<envVars, appVars, dlgVars, padVars, ret, attempt, posOk, btn, histVars,
                   engVars>>

\* stop_capture called by thread t at position `here`: the flag, then the
\* join (at `joining`) or the return (to `next`).  A raising join leaves the
\* call by the exception ("raised").
stop_capture(t, here, joining, next) ==
    /\ pc[t] = here
    /\ capturing' = FALSE
    /\ pc' = [pc EXCEPT ![t] =
                 CASE JoinOutcome(Ident(t)) = "join" -> joining
                   [] JoinOutcome(Ident(t)) = "raise" -> "raised"
                   [] OTHER -> next]
    /\ UNCHANGED <<envVars, appVars, dlgVars, padVars, ret, attempt, posOk, btn, histVars,
                   target_hwnd, capture_thread, callback, wpc, fails>>

\* capture_thread.join(timeout=2.0) returns in thread t.
stop_capture_join(t, joining, next) ==
    /\ pc[t] = joining
    /\ JoinReturns(capture_thread)
    /\ pc' = [pc EXCEPT ![t] = next]
    /\ UNCHANGED <<envVars, appVars, dlgVars, padVars, engVars, ret, attempt, posOk, btn,
                   histVars>>

\* ============================================================ environment

\* The emulator process ends by itself; its window goes with it.
ProcExit(p) ==
    /\ proc[p] = "running"
    /\ proc' = [proc EXCEPT ![p] = "exited"]
    /\ hasWindow' = [hasWindow EXCEPT ![p] = FALSE]
    /\ UNCHANGED <<appVars, dlgVars, padVars, engVars, thrVars, histVars>>

\* The emulator process opens its window.
WindowAppears(p) ==
    /\ proc[p] = "running"
    /\ ~hasWindow[p]
    /\ hasWindow' = [hasWindow EXCEPT ![p] = TRUE]
    /\ UNCHANGED <<proc, appVars, dlgVars, padVars, engVars, thrVars, histVars>>

\* The emulator's window is destroyed while its process lives on.
WindowCloses(p) ==
    /\ proc[p] = "running"
    /\ hasWindow[p]
    /\ hasWindow' = [hasWindow EXCEPT ![p] = FALSE]
    /\ UNCHANGED <<proc, appVars, dlgVars, padVars, engVars, thrVars, histVars>>

\* input_cooldown (0.2 s) has passed since last_controller_input_time.
CooldownElapses ==
    /\ cooling
    /\ cooling' = FALSE
    /\ UNCHANGED <<envVars, xenia_process, xenia_hwnd, is_capturing,
                   is_xenia_running, dlgVars, padVars, display, focus_index, engVars, thrVars,
                   histVars>>

\* ==================================================================== App

\* find_xenia_window(process_id): the first enumerated window of the process
\* that passes the filter, else None.
find_xenia_window(process_id) ==
    IF process_id \in Pids /\ hasWindow[process_id] THEN process_id ELSE None

\* The other thread is idle and no session exists: thread t starts from idle.
IdleFor(t) ==
    /\ xenia_process = None
    /\ ~is_capturing
    /\ ~capturing
    /\ LiveProcs = {}
    /\ LiveWorkers = {}
    /\ pc[Other(t)] = "idle"

\* Thread t returns from launch_selected_rom or stop_game to its caller; in
\* the poll thread the caller is handle_controller_state, which then sets
\* last_controller_input_time.
Return(t) ==
    /\ pc' = [pc EXCEPT ![t] = ret[t]]
    /\ cooling' = (cooling \/ t = "poll")
    /\ ret' = [ret EXCEPT ![t] = "idle"]
    /\ attempt' = [attempt EXCEPT ![t] = 0]
    /\ posOk' = [posOk EXCEPT ![t] = FALSE]

\* A faulty loop bound that gives up one attempt early.
LastAttempt_one_short(t) ==
    attempt[t] + 2 >= find_attempts

\* setup_window_capture: `for attempt in range(30)`: this attempt, counted
\* from 0, is the last one.
LastAttempt(t) ==
    attempt[t] + 1 >= find_attempts

\* A faulty show_error_popup that shows nothing.
show_error_popup_nothing(title) ==
    UNCHANGED popup

\* show_error_popup(title, message)
show_error_popup(title) ==
    popup' = title

\* launch_selected_rom: `if not selected_name or selected_name not in
\* self.hdd_content`
SelectionValid ==
    selected_name # "" /\ selected_name \in hdd_content

\* launch_selected_rom reaches Popen: the three tests pass.
Launchable ==
    SelectionValid /\ exe_exists /\ content_exists

\* A faulty launch_selected_rom without the test of the executable.
launch_selected_rom_no_exe_test(t, here, r) ==
    /\ pc[t] = here
    /\ IF ~SelectionValid \/ ~content_exists
       THEN /\ pc' = [pc EXCEPT ![t] = r]
            /\ cooling' = (cooling \/ t = "poll")
            /\ IF ~SelectionValid
               THEN UNCHANGED popup
               ELSE show_error_popup("Content Not Found")
            /\ UNCHANGED <<envVars, xenia_process, xenia_hwnd, ret, attempt,
                           clean, spawns>>
       ELSE /\ FreePids # {}
            /\ proc' = [proc EXCEPT ![Min(FreePids)] = "running"]
            /\ xenia_process' = Min(FreePids)
            /\ xenia_hwnd' = None
            /\ pc' = [pc EXCEPT ![t] = "find"]
            /\ ret' = [ret EXCEPT ![t] = r]
            /\ attempt' = [attempt EXCEPT ![t] = 0]
            /\ clean' = [clean EXCEPT ![t] = IdleFor(t), ![Other(t)] = FALSE]
            /\ spawns' = IF t = "poll" THEN spawns + 1 ELSE spawns
            /\ UNCHANGED <<hasWindow, cooling, popup>>
    /\ UNCHANGED <<is_capturing, is_xenia_running, ctlVars, timers, display,
                   focus_index, engVars, posOk>>

\* launch_selected_rom, entered by thread t at `here` and returning to r.
\* An empty or unknown selection returns at once; a missing executable or
\* content file shows its error popup and returns.  Else Popen, then the head
\* of setup_window_capture (self.xenia_hwnd = None).  No test of
\* xenia_process or is_capturing precedes the spawn.
launch_selected_rom(t, here, r) ==
    /\ pc[t] = here
    /\ IF ~Launchable
       THEN /\ pc' = [pc EXCEPT ![t] = r]
            /\ cooling' = (cooling \/ t = "poll")
            /\ IF ~SelectionValid
               THEN UNCHANGED popup
               ELSE IF ~exe_exists
               THEN show_error_popup("Executable Not Found")
               ELSE show_error_popup("Content Not Found")
            /\ UNCHANGED <<envVars, xenia_process, xenia_hwnd, ret, attempt,
                           clean, spawns>>
       ELSE /\ FreePids # {}
            /\ proc' = [proc EXCEPT ![Min(FreePids)] = "running"]
            /\ xenia_process' = Min(FreePids)
            /\ xenia_hwnd' = None
            /\ pc' = [pc EXCEPT ![t] = "find"]
            /\ ret' = [ret EXCEPT ![t] = r]
            /\ attempt' = [attempt EXCEPT ![t] = 0]
            /\ clean' = [clean EXCEPT ![t] = IdleFor(t), ![Other(t)] = FALSE]
            /\ spawns' = IF t = "poll" THEN spawns + 1 ELSE spawns
            /\ UNCHANGED <<hasWindow, cooling, popup>>
    /\ UNCHANGED <<is_capturing, is_xenia_running, ctlVars, timers, display,
                   focus_index, engVars, posOk>>

\* setup_window_capture: one attempt of the loop.  A handle cleared by the
\* other thread raises on .pid (caught: "Capture Setup Failed").  A miss
\* sleeps 0.5 s; the last miss ends the loop ("Window Not Found").
setup_window_capture(t) ==
    /\ pc[t] = "find"
    /\ IF xenia_process = None
       THEN /\ Return(t)
            /\ show_error_popup("Capture Setup Failed")
            /\ UNCHANGED xenia_hwnd
       ELSE /\ xenia_hwnd' = find_xenia_window(xenia_process)
            /\ IF find_xenia_window(xenia_process) # None
               THEN /\ pc' = [pc EXCEPT ![t] = "found"]
                    /\ UNCHANGED <<ret, attempt, posOk, cooling, popup>>
               ELSE IF LastAttempt(t)
               THEN /\ Return(t)
                    /\ show_error_popup("Window Not Found")
               ELSE /\ attempt' = [attempt EXCEPT ![t] = @ + 1]
                    /\ UNCHANGED <<pc, ret, posOk, cooling, popup>>
    /\ UNCHANGED <<envVars, xenia_process, is_capturing, is_xenia_running,
                   display, focus_index, engVars, btn, clean, padVars>>

\* setup_window_capture: GetWindowText / GetClassName of the found handle;
\* an invalid handle raises (caught: "Capture Setup Failed").
setup_found(t) ==
    /\ pc[t] = "found"
    /\ IF xenia_hwnd # None /\ hasWindow[xenia_hwnd]
       THEN /\ pc' = [pc EXCEPT ![t] = "position"]
            /\ UNCHANGED <<ret, attempt, posOk, cooling, popup>>
       ELSE /\ Return(t)
            /\ show_error_popup("Capture Setup Failed")
    /\ UNCHANGED <<envVars, xenia_process, xenia_hwnd, is_capturing,
                   is_xenia_running, display, focus_index, engVars, btn,
                   clean, padVars>>

\* position_window_for_capture(hwnd): True when the window was restyled and
\* moved, False when a win32 call raised (the window is gone).  The caller
\* drops the result.
position_window_for_capture(t) ==
    /\ pc[t] = "position"
    /\ posOk' = [posOk EXCEPT ![t] = xenia_hwnd # None /\ hasWindow[xenia_hwnd]]
    /\ pc' = [pc EXCEPT ![t] = "show"]
    /\ UNCHANGED <<envVars, appVars, dlgVars, padVars, engVars, ret, attempt, btn, histVars>>

\* A faulty setup_show that shows the game but leaves is_capturing alone.
setup_show_no_flag(t) ==
    /\ pc[t] = "show"
    /\ display' = "game"
    /\ pc' = [pc EXCEPT ![t] = "start"]
    /\ UNCHANGED <<envVars, xenia_process, xenia_hwnd, is_xenia_running, dlgVars, padVars,
                   is_capturing, focus_index, cooling, engVars, ret, attempt,
                   posOk, btn, histVars>>

\* setup_window_capture: show_game(); self.is_capturing = True
setup_show(t) ==
    /\ pc[t] = "show"
    /\ display' = "game"
    /\ is_capturing' = TRUE
    /\ pc' = [pc EXCEPT ![t] = "start"]
    /\ UNCHANGED <<envVars, xenia_process, xenia_hwnd, is_xenia_running, dlgVars, padVars,
                   focus_index, cooling, engVars, ret, attempt, posOk, btn,
                   histVars>>

\* setup_window_capture: window_capture.start_capture(self.xenia_hwnd, ...),
\* then the return through launch_selected_rom.
setup_start(t) ==
    /\ pc[t] = "start"
    /\ start_capture(xenia_hwnd)
    /\ Return(t)
    /\ UNCHANGED <<envVars, xenia_process, xenia_hwnd, is_capturing,
                   is_xenia_running, dlgVars, padVars, display, focus_index, btn, clean>>

\* stop_game: `if self.is_capturing: self.is_capturing = False`
stop_game(t) ==
    /\ pc[t] = "stop"
    /\ is_capturing' = FALSE
    /\ pc' = [pc EXCEPT ![t] = IF is_capturing THEN "stopcap" ELSE "term"]
    /\ UNCHANGED <<envVars, xenia_process, xenia_hwnd, is_xenia_running, dlgVars, padVars,
                   display, focus_index, cooling, engVars, ret, attempt,
                   posOk, btn, histVars>>

\* stop_game returns to its caller; in the UI thread that is
\* monitor_xenia_processes, which then schedules the next check.
AfterStopGame(t) ==
    IF t = "ui" THEN timers + 1 ELSE timers

\* stop_game: xenia_process.terminate() (TerminateProcess), then sleep(0.5);
\* with no handle, show_menu() at once.
stop_game_terminate(t) ==
    /\ pc[t] = "term"
    /\ IF xenia_process = None
       THEN /\ display' = "menu"
            /\ Return(t)
            /\ timers' = AfterStopGame(t)
            /\ UNCHANGED envVars
       ELSE /\ proc' = [proc EXCEPT ![xenia_process] = "exited"]
            /\ hasWindow' = [hasWindow EXCEPT ![xenia_process] = FALSE]
            /\ pc' = [pc EXCEPT ![t] = "kill"]
            /\ UNCHANGED <<display, ret, attempt, posOk, cooling, timers>>
    /\ UNCHANGED <<xenia_process, xenia_hwnd, is_capturing, is_xenia_running,
                   dlgVars, ctlVars, spawns, focus_index, engVars, btn, clean>>

\* stop_game: poll(), kill() if still running, the references cleared (also
\* in the except branch, when the handle is already None), show_menu().
stop_game_kill(t) ==
    /\ pc[t] = "kill"
    /\ IF xenia_process # None /\ proc[xenia_process] = "running"
       THEN /\ proc' = [proc EXCEPT ![xenia_process] = "exited"]
            /\ hasWindow' = [hasWindow EXCEPT ![xenia_process] = FALSE]
       ELSE UNCHANGED envVars
    /\ xenia_process' = None
    /\ xenia_hwnd' = None
    /\ display' = "menu"
    /\ Return(t)
    /\ timers' = AfterStopGame(t)
    /\ UNCHANGED <<is_capturing, is_xenia_running, dlgVars, ctlVars, spawns,
                   focus_index, engVars, btn, clean>>

\* check_xenia_process
check_xenia_process ==
    xenia_process # None /\ proc[xenia_process] = "running"

\* A faulty monitor that schedules the next check before the teardown as
\* well as after it.
monitor_xenia_processes_twice ==
    /\ pc["ui"] = "idle"
    /\ timers > 0
    /\ is_xenia_running' = check_xenia_process
    /\ IF is_xenia_running # check_xenia_process
          /\ ~check_xenia_process /\ is_capturing
       THEN /\ pc' = [pc EXCEPT !["ui"] = "stop"]
            /\ clean' = [t \in Threads |-> FALSE]
       ELSE UNCHANGED <<pc, clean>>
    /\ UNCHANGED <<envVars, xenia_process, xenia_hwnd, is_capturing, display,
                   dlgVars, padVars,
                   focus_index, cooling, engVars, ret, attempt, posOk, btn>>

\* monitor_xenia_processes, run by its pending `after(process_check_interval,
\* ...)` timer in the UI thread: teardown only on a change of
\* is_xenia_running to False while capturing; the next check is scheduled at
\* the end, which after a teardown is when stop_game has returned.
monitor_xenia_processes ==
    /\ pc["ui"] = "idle"
    /\ timers > 0
    /\ is_xenia_running' = check_xenia_process
    /\ IF is_xenia_running # check_xenia_process
          /\ ~check_xenia_process /\ is_capturing
       THEN /\ pc' = [pc EXCEPT !["ui"] = "stop"]
            /\ clean' = [t \in Threads |-> FALSE]
            /\ timers' = timers - 1
       ELSE UNCHANGED <<pc, clean, timers>>
    /\ UNCHANGED <<envVars, xenia_process, xenia_hwnd, is_capturing, display,
                   dlgVars, ctlVars, spawns,
                   focus_index, cooling, engVars, ret, attempt, posOk, btn>>

\* navigate_focus(direction)
navigate_focus(direction) ==
    (focus_index + direction + NumWidgets) % NumWidgets

\* The update still has a launch to decide after the navigation: A (which
\* activates the focused widget) or Start without Back.
Pending(b) ==
    b.a \/ (b.start /\ ~b.back)

\* What the rest of the handler reads of the update.
Held(b) ==
    [a |-> b.a, start |-> b.start /\ ~b.back, back |-> FALSE, nav |-> 0]

\* A faulty handler without the cooldown test.
handle_controller_state_no_cooldown(b) ==
    /\ pc["poll"] = "idle"
    /\ IF FALSE
       THEN UNCHANGED vars
       ELSE IF is_capturing
       THEN IF b.back /\ b.start
            THEN /\ pc' = [pc EXCEPT !["poll"] = "stop"]
                 /\ clean' = [t \in Threads |-> FALSE]
                 /\ UNCHANGED <<envVars, appVars, dlgVars, padVars, engVars, ret, attempt,
                                posOk, btn>>
            ELSE UNCHANGED vars
       ELSE /\ focus_index' = navigate_focus(b.nav)
            /\ cooling' = (b.nav # 0 \/ (b.back /\ ~b.start))
            /\ btn' = IF Pending(b) THEN Held(b) ELSE NoButtons
            /\ pc' = [pc EXCEPT !["poll"] =
                         IF Pending(b) THEN "h_a" ELSE "idle"]
            /\ spawns' = 0
            /\ UNCHANGED <<envVars, xenia_process, xenia_hwnd, is_capturing,
                           is_xenia_running, dlgVars, ctlVars, timers,
                           display, engVars, ret, attempt, posOk, histVars>>

\* A faulty handler that stops the game on Back alone.
handle_controller_state_back(b) ==
    /\ pc["poll"] = "idle"
    /\ IF cooling
       THEN UNCHANGED vars
       ELSE IF is_capturing
       THEN IF b.back
            THEN /\ pc' = [pc EXCEPT !["poll"] = "stop"]
                 /\ clean' = [t \in Threads |-> FALSE]
                 /\ UNCHANGED <<envVars, appVars, dlgVars, padVars, engVars, ret, attempt,
                                posOk, btn>>
            ELSE UNCHANGED vars
       ELSE /\ focus_index' = navigate_focus(b.nav)
            /\ cooling' = (b.nav # 0 \/ (b.back /\ ~b.start))
            /\ btn' = IF Pending(b) THEN Held(b) ELSE NoButtons
            /\ pc' = [pc EXCEPT !["poll"] =
                         IF Pending(b) THEN "h_a" ELSE "idle"]
            /\ spawns' = 0
            /\ UNCHANGED <<envVars, xenia_process, xenia_hwnd, is_capturing,
                           is_xenia_running, dlgVars, ctlVars, timers,
                           display, engVars, ret, attempt, posOk, histVars>>

\* handle_controller_state(state), called by _poll_loop in the poll thread:
\* the cooldown test, the Back+Start exit while capturing, else navigation
\* (and set_default_rom on Back alone), each followed by
\* last_controller_input_time = current_time.
handle_controller_state(b) ==
    /\ pc["poll"] = "idle"
    /\ IF cooling
       THEN UNCHANGED vars
       ELSE IF is_capturing
       THEN IF b.back /\ b.start
            THEN /\ pc' = [pc EXCEPT !["poll"] = "stop"]
                 /\ clean' = [t \in Threads |-> FALSE]
                 /\ UNCHANGED <<envVars, appVars, dlgVars, padVars, engVars, ret, attempt,
                                posOk, btn>>
            ELSE UNCHANGED vars
       ELSE /\ focus_index' = navigate_focus(b.nav)
            /\ cooling' = (b.nav # 0 \/ (b.back /\ ~b.start))
            /\ btn' = IF Pending(b) THEN Held(b) ELSE NoButtons
            /\ pc' = [pc EXCEPT !["poll"] =
                         IF Pending(b) THEN "h_a" ELSE "idle"]
            /\ spawns' = 0
            /\ UNCHANGED <<envVars, xenia_process, xenia_hwnd, is_capturing,
                           is_xenia_running, dlgVars, ctlVars, timers,
                           display, engVars, ret, attempt, posOk, histVars>>

\* handle_controller_state: `if buttons.get('a')`: activate_focused_widget(),
\* which invokes the launch button's command when that button has the focus.
handle_a ==
    /\ pc["poll"] = "h_a"
    /\ IF btn.a /\ focus_index = launchButton
       THEN launch_selected_rom("poll", "h_a", "h_start")
       ELSE /\ pc' = [pc EXCEPT !["poll"] = "h_start"]
            /\ cooling' = (cooling \/ btn.a)
            /\ UNCHANGED <<envVars, xenia_process, xenia_hwnd, is_capturing,
                           is_xenia_running, dlgVars, padVars, display, focus_index, engVars,
                           ret, attempt, posOk, histVars>>
    /\ btn' = [btn EXCEPT !.a = FALSE]

\* handle_controller_state: `if start and not back: launch_selected_rom()`
handle_start ==
    /\ pc["poll"] = "h_start"
    /\ IF btn.start /\ ~btn.back
       THEN launch_selected_rom("poll", "h_start", "idle")
       ELSE /\ pc' = [pc EXCEPT !["poll"] = "idle"]
            /\ UNCHANGED <<envVars, appVars, dlgVars, padVars, engVars, ret, attempt, posOk,
                           histVars>>
    /\ btn' = NoButtons

\* The user clicks the launch button (placed only while the menu is shown).
click_launch ==
    /\ display = "menu"
    /\ popup = "none"
    /\ launch_selected_rom("ui", "idle", "idle")
    /\ UNCHANGED btn

\* <Return>: activate_focused_widget() in the UI thread.
key_return ==
    /\ focus_index = launchButton
    /\ popup = "none"
    /\ launch_selected_rom("ui", "idle", "idle")
    /\ UNCHANGED btn

\* <Up> / <Down>: navigate_focus(-1 / 1) in the UI thread.
key_navigate(direction) ==
    /\ pc["ui"] = "idle"
    /\ popup = "none"
    /\ focus_index' = navigate_focus(direction)
    /\ UNCHANGED <<envVars, xenia_process, xenia_hwnd, is_capturing,
                   is_xenia_running, dlgVars, padVars, display, cooling, engVars, thrVars,
                   histVars>>

\* show_error_popup: the popup holds the grab (grab_set) until the user
\* clicks its OK button (command=popup.destroy).
dismiss_popup ==
    /\ pc["ui"] = "idle"
    /\ popup # "none"
    /\ popup' = "none"
    /\ UNCHANGED <<envVars, appVars, engVars, thrVars, histVars, padVars>>

\* One step of thread t inside launch_selected_rom / stop_game.
ThreadStep(t) ==
    \/ setup_window_capture(t)
    \/ setup_found(t)
    \/ position_window_for_capture(t)
    \/ setup_show(t)
    \/ setup_start(t)
    \/ stop_game(t)
    \/ stop_capture(t, "stopcap", "join", "term")
    \/ stop_capture_join(t, "join", "term")
    \/ stop_game_terminate(t)
    \/ stop_game_kill(t)

\* Steps of the poll thread: the callback runs in that thread.
PollStep ==
    \/ \E b \in Buttons : handle_controller_state(b)
    \/ handle_a
    \/ handle_start
    \/ ThreadStep("poll")

UiStep ==
    \/ click_launch
    \/ dismiss_popup
    \/ key_return
    \/ \E d \in {-1, 1} : key_navigate(d)
    \/ monitor_xenia_processes
    \/ ThreadStep("ui")

OsStep ==
    \/ \E p \in Pids : ProcExit(p)
    \/ \E p \in Pids : WindowAppears(p)
    \/ \E p \in Pids : WindowCloses(p)

Next ==
    \/ UiStep
    \/ PollStep
    \/ \E w \in Workers : _capture_loop(w)
    \/ OsStep
    \/ CooldownElapses

\* The application with every input.
Spec == Init /\ [][Next]_vars

\* The application driven by keyboard and mouse: no controller is connected,
\* every update the poll thread hands over has no button or axis active.
KeyNext ==
    \/ UiStep
    \/ \E w \in Workers : _capture_loop(w)
    \/ OsStep

KeySpec == Init /\ [][KeyNext]_vars

\* The application driven by the controller alone, with an emulator that
\* runs until it is stopped: the UI thread runs its timer, the poll thread
\* runs handle_controller_state.
PadNext ==
    \/ PollStep
    \/ monitor_xenia_processes
    \/ \E w \in Workers : _capture_loop(w)
    \/ \E p \in Pids : WindowAppears(p)
    \/ \E p \in Pids : WindowCloses(p)
    \/ CooldownElapses

PadSpec == Init /\ [][PadNext]_vars

\* The capture engine alone, driven by one caller (the UI thread) that calls
\* start_capture and stop_capture in any order, stop_capture also twice in a
\* row, on windows that come and go.
engine_start(hwnd) ==
    /\ pc["ui"] = "idle"
    /\ start_capture(hwnd)
    /\ UNCHANGED <<envVars, appVars, dlgVars, padVars, thrVars, histVars>>

engine_window(hwnd) ==
    /\ hasWindow' = [hasWindow EXCEPT ![hwnd] = ~@]
    /\ UNCHANGED <<proc, appVars, dlgVars, padVars, engVars, thrVars, histVars>>

engine_return ==
    /\ pc["ui"] \in {"stopped", "stopped2"}
    /\ pc' = [pc EXCEPT !["ui"] = "idle"]
    /\ UNCHANGED <<envVars, appVars, dlgVars, padVars, engVars, ret, attempt, posOk, btn,
                   histVars>>

EngineNext ==
    \/ \E h \in Pids : engine_start(h)
    \/ stop_capture("ui", "idle", "join", "stopped")
    \/ stop_capture_join("ui", "join", "stopped")
    \/ stop_capture("ui", "stopped", "join2", "stopped2")
    \/ stop_capture_join("ui", "join2", "stopped2")
    \/ engine_return
    \/ \E w \in Workers : _capture_loop(w)
    \/ \E h \in Pids : engine_window(h)

EngineSpec == Init /\ [][EngineNext]_vars

\* Every worker thread is scheduled, and a join that can return returns.
FairEngineSpec ==
    /\ EngineSpec
    /\ \A w \in Workers : WF_vars(_capture_loop(w))
    /\ WF_vars(stop_capture_join("ui", "join", "stopped"))
    /\ WF_vars(stop_capture_join("ui", "join2", "stopped2"))

\* ========================================================= _poll_loop

\* Raw values a stick axis is read at (0 is its rest position): the ends of
\* the 16-bit range and the values next to the deadzone.
StickSamples == {ShortMin, ShortMin + 1, -6554, -6553, 6553, 6554, ShortMax}
\* Raw values an XInput trigger byte is read at (0 is its rest position).
ByteSamples == {25, 127, 128, ByteMax}
\* Raw values an SDL trigger axis is read at.
SdlTriggerSamples == {ShortMin, 16384, ShortMax}

\* One input of a hardware reading.
XInputs ==
    [kind : {"button"}, name : ButtonNames, raw : {1}]
    \cup [kind : {"axis"}, name : StickNames, raw : StickSamples]
    \cup [kind : {"axis"}, name : TriggerNames, raw : ByteSamples]
SdlInputs ==
    [kind : {"button"}, name : ButtonNames, raw : {1}]
    \cup [kind : {"axis"}, name : StickNames, raw : StickSamples]
    \cup [kind : {"axis"}, name : TriggerNames, raw : SdlTriggerSamples]

XApply(hw, i) ==
    IF i.kind = "button" THEN [hw EXCEPT !.wButtons = @ \cup {i.name}]
    ELSE IF i.name \in StickNames THEN [hw EXCEPT !.thumb[i.name] = i.raw]
    ELSE [hw EXCEPT !.trigger[i.name] = i.raw]
SdlApply(hw, i) ==
    IF i.kind = "button" THEN [hw EXCEPT !.button = @ \cup {i.name}]
    ELSE [hw EXCEPT !.axis[i.name] = i.raw]

RECURSIVE XUpTo(_)
XUpTo(k) ==
    IF k = 0 THEN {XRest}
    ELSE XUpTo(k - 1) \cup {XApply(r, i) : r \in XUpTo(k - 1), i \in XInputs}
RECURSIVE SdlUpTo(_)
SdlUpTo(k) ==
    IF k = 0 THEN {SRest}
    ELSE SdlUpTo(k - 1)
         \cup {SdlApply(r, i) : r \in SdlUpTo(k - 1), i \in SdlInputs}

\* The hardware readings: nothing connected, or a controller with at most
\* MaxActive inputs.
XReadings == {XDisconnected} \cup XUpTo(MaxActive)
SdlReadings == {SDisconnected} \cup SdlUpTo(MaxActive)

notPadVars == <<envVars, appVars, engVars, thrVars, histVars, dlgVars,
                frameVars, findVars, installVars, spawns, timers>>

\* The hardware: a controller is plugged in or out, its A button pressed or
\* released.
XButtonA == XApply(XRest, [kind |-> "button", name |-> "a", raw |-> 1])
SdlButtonA == SdlApply(SRest, [kind |-> "button", name |-> "a", raw |-> 1])
XPlugged == {XDisconnected, XRest, XButtonA}
SdlPlugged == {SDisconnected, SRest, SdlButtonA}

\* A faulty test that rescans as soon as scan_interval has elapsed.
poll_test_at_interval ==
    /\ ppc = "test"
    /\ IF running
       THEN /\ current_time' = now
            /\ ppc' = IF now - last_scan_time >= scan_interval
                      THEN "scan" ELSE "read"
       ELSE ppc' = "done" /\ UNCHANGED current_time
    /\ UNCHANGED <<notPadVars, hwVars, running, state, caught, now,
                   last_scan_time, askVars>>

\* _poll_loop: `while self.running`, current_time = time.time() and the
\* test of the scan interval.
poll_test ==
    /\ ppc = "test"
    /\ IF running
       THEN /\ current_time' = now
            /\ ppc' = IF now - last_scan_time > scan_interval
                      THEN "scan" ELSE "read"
       ELSE ppc' = "done" /\ UNCHANGED current_time
    /\ UNCHANGED <<notPadVars, hwVars, running, state, caught, now,
                   last_scan_time, askVars>>

\* The backends a rescan scans: _scan_xinput_controllers in the modes "any"
\* and "xinput", _scan_sdl_controllers (SDL2 being installed) in the modes
\* "any" and "sdl".
ScanBackends(ct) ==
    {b \in {"xinput"} : ct \in {"any", "xinput"}}
    \cup {b \in {"sdl"} : ct \in {"any", "sdl"}}

\* The rescan calls SDL (SDL_JoystickUpdate, SDL_NumJoysticks) after
\* stop_polling has called SDL_Quit.
ScansClosed ==
    closed /\ "sdl" \in ScanBackends(controller_type)

\* _poll_loop: the periodic rescan and last_scan_time = current_time; an
\* exception leaves the try block.
poll_scan(raises) ==
    /\ ppc = "scan"
    /\ IF raises
       THEN ppc' = "except" /\ UNCHANGED <<last_scan_time, scanned, late>>
       ELSE /\ scanned' = scanned \cup ScanBackends(controller_type)
            /\ late' = late \cup {a \in {"scan"} : ScansClosed}
            /\ last_scan_time' = current_time
            /\ ppc' = "read"
    /\ UNCHANGED <<notPadVars, hwVars, running, state, caught, now,
                   current_time, queried>>

\* A faulty choice of backends that falls back to SDL in the mode "xinput"
\* when XInput has no controller.
QueryBackends_fallback(ct, xhw) ==
    {b \in {"xinput"} : ct \in {"any", "xinput"}}
    \cup {b \in {"sdl"} : ~AfterXInput(ct, xhw).connected \/ ct = "any"}

\* The backends get_controller_state queries: _get_xinput_state in the modes
\* "any" and "xinput", _get_sdl_state in the mode "any" and, XInput not
\* having connected the state, in the mode "sdl".
QueryBackends(ct, xhw) ==
    {b \in {"xinput"} : ct \in {"any", "xinput"}}
    \cup {b \in {"sdl"} : /\ ~AfterXInput(ct, xhw).connected \/ ct = "any"
                         /\ ct \in {"any", "sdl"}}

\* _get_sdl_state reads sdl_controllers[0]['controller'], a handle that
\* stop_polling has closed and left in the list.
ReadsClosed ==
    /\ closed
    /\ "sdl" \in QueryBackends(controller_type, xinput)
    /\ sdl.connected

\* What get_controller_state can return: through a closed handle SDL reads
\* freed memory, which can hold any reading.
ReadOutcomes ==
    {get_controller_state(controller_type, xinput, s) :
        s \in IF ReadsClosed THEN SdlPlugged ELSE {sdl}}

\* _poll_loop: state = self.get_controller_state(0); an exception leaves the
\* try block.
poll_read(raises) ==
    /\ ppc = "read"
    /\ IF raises
       THEN ppc' = "except" /\ UNCHANGED <<state, queried, late>>
       ELSE /\ state' \in ReadOutcomes
            /\ queried' = queried \cup QueryBackends(controller_type, xinput)
            /\ late' = late \cup {a \in {"read"} : ReadsClosed}
            /\ ppc' = "callback"
    /\ UNCHANGED <<notPadVars, hwVars, running, caught, clockVars, scanned>>

\* _poll_loop: callback(state), taken here as a call that returns or raises.
poll_callback(raises) ==
    /\ ppc = "callback"
    /\ ppc' = IF raises THEN "except" ELSE "sleep"
    /\ late' = late \cup {a \in {"callback"} : ~running}
    /\ UNCHANGED <<notPadVars, hwVars, running, state, caught, clockVars,
                   scanned, queried>>

\* _poll_loop: time.sleep(interval), at the end of the try block and at the
\* end of the except block.
poll_sleep ==
    /\ ppc = "sleep"
    /\ ppc' = "test"
    /\ UNCHANGED <<notPadVars, hwVars, running, state, caught, clockVars,
                   askVars>>

\* A faulty handler that lets the exception end the loop.
poll_except_exits ==
    /\ ppc = "except"
    /\ ppc' = "done"
    /\ caught' = TRUE
    /\ UNCHANGED <<notPadVars, hwVars, running, state, clockVars, askVars>>

\* _poll_loop: except Exception as e: print(...)
poll_except ==
    /\ ppc = "except"
    /\ ppc' = "sleep"
    /\ caught' = TRUE
    /\ UNCHANGED <<notPadVars, hwVars, running, state, clockVars, askVars>>

\* stop_polling: self.running = False, no join of the poll thread, then
\* SDL_GameControllerClose on every handle of sdl_controllers (the list keeps
\* them) and SDL_Quit.
stop_polling ==
    /\ running
    /\ running' = FALSE
    /\ closed' = TRUE
    /\ UNCHANGED <<notPadVars, controller_type, xinput, sdl, ppc, state,
                   caught, clockVars, askVars>>

\* The clock advances, at any point of the loop and by any amount between
\* two ticks.
TimePasses ==
    /\ now < StartTime + MaxElapsed
    /\ now' = now + 1
    /\ UNCHANGED <<notPadVars, hwVars, running, ppc, state, caught,
                   current_time, last_scan_time, askVars>>

\* The hardware changes between two ticks.
HardwareChanges ==
    /\ \/ xinput' \in XPlugged \ {xinput} /\ UNCHANGED sdl
       \/ sdl' \in SdlPlugged \ {sdl} /\ UNCHANGED xinput
    /\ UNCHANGED <<notPadVars, controller_type, closed, running, ppc, state,
                   caught, clockVars, askVars>>

\* The poll loop alone, from start_polling to its end, with ticks that may
\* raise, on hardware that changes.
PollNext ==
    \/ poll_test
    \/ \E raises \in BOOLEAN : poll_scan(raises)
    \/ \E raises \in BOOLEAN : poll_read(raises)
    \/ \E raises \in BOOLEAN : poll_callback(raises)
    \/ poll_sleep
    \/ poll_except
    \/ stop_polling
    \/ HardwareChanges
    \/ TimePasses

PollInit ==
    /\ AppInit
    /\ controller_type \in {"any", "xinput", "sdl"}
    /\ running = TRUE
    /\ ppc = "test"
    /\ xinput = XDisconnected
    /\ sdl = SDisconnected
    /\ state = EmptyState
    /\ LoopInit
    /\ Installed
    /\ FrameNone
    /\ FindNone
    /\ print_window_available = TRUE

PollSpec == PollInit /\ [][PollNext]_vars

\* ==================================================== _capture_loop alone

\* The worker of the engine's one capture session.
FrameWorker == Min(Workers)

notFrameVars == <<envVars, appVars, thrVars, histVars, dlgVars, hwVars,
                  running, ppc, state, caught, current_time, last_scan_time,
                  askVars, wpc, fails, findVars, installVars, spawns,
                  timers>>

\* A faulty capture_window that tries MSS first.
capture_window_mss_first(avail, pw, mss) ==
    IF mss THEN [img |-> "mss", tried |-> <<"mss">>]
    ELSE [img |-> IF avail /\ pw THEN "printwindow" ELSE "none",
          tried |-> IF avail THEN <<"mss", "printwindow">> ELSE <<"mss">>]

\* capture_window(hwnd) on the outcomes pw and mss of the two methods:
\* PrintWindow when it is available, then MSS.
capture_window_by(avail, pw, mss) ==
    IF avail /\ pw THEN [img |-> "printwindow", tried |-> <<"printwindow">>]
    ELSE [img |-> IF mss THEN "mss" ELSE "none",
          tried |-> IF avail THEN <<"printwindow", "mss">> ELSE <<"mss">>]

\* start_capture(hwnd, callback) by the owner of the engine.
frame_start_capture ==
    /\ fpc = "none"
    /\ target_hwnd' = FrameWorker
    /\ callback' = TRUE
    /\ capturing' = TRUE
    /\ capture_thread' = FrameWorker
    /\ fpc' = "start"
    /\ UNCHANGED <<notFrameVars, now, shotVars, last_capture_time,
                   frame_current_time, consecutive_failures, attempt_at,
                   attempts>>

\* _capture_loop: last_capture_time = time.time(); consecutive_failures = 0
frame_begin ==
    /\ fpc = "start"
    /\ last_capture_time' = now
    /\ consecutive_failures' = 0
    /\ fpc' = "test"
    /\ UNCHANGED <<notFrameVars, now, capturing, target_hwnd, capture_thread,
                   callback, shotVars, frame_current_time, attempt_at,
                   attempts>>

\* _capture_loop: `while self.capturing and self.target_hwnd`
frame_test ==
    /\ fpc = "test"
    /\ fpc' = IF capturing /\ target_hwnd # None THEN "time" ELSE "done"
    /\ UNCHANGED <<notFrameVars, now, capturing, target_hwnd, capture_thread,
                   callback, shotVars, last_capture_time, frame_current_time,
                   consecutive_failures, attempt_at, attempts>>

\* _capture_loop: current_time = time.time(), elapsed, and the sleep for the
\* rest of the frame time.
frame_wait ==
    /\ fpc = "time"
    /\ frame_current_time' = now
    /\ now' = IF now - last_capture_time < frame_time
              THEN now + (frame_time - (now - last_capture_time))
              ELSE now
    /\ fpc' = "capture"
    /\ UNCHANGED <<notFrameVars, capturing, target_hwnd, capture_thread,
                   callback, shotVars, last_capture_time,
                   consecutive_failures, attempt_at, attempts>>

\* _capture_loop: img = self.capture_window(self.target_hwnd), on a window
\* that PrintWindow and MSS can or cannot read, taking took units of time.
frame_capture(pw, mss, took) ==
    /\ fpc = "capture"
    /\ attempts < MaxFrames
    /\ pw_ok' = pw
    /\ mss_ok' = mss
    /\ img' = capture_window_by(print_window_available, pw, mss).img
    /\ tried' = capture_window_by(print_window_available, pw, mss).tried
    /\ attempt_at' = now
    /\ attempts' = attempts + 1
    /\ now' = now + took
    /\ fpc' = "deliver"
    /\ UNCHANGED <<notFrameVars, capturing, target_hwnd, capture_thread,
                   callback, print_window_available, last_capture_time,
                   frame_current_time, consecutive_failures>>

\* _capture_loop: the callback and consecutive_failures = 0, or the count
\* and, at max_failures, self.stop_capture(), whose join of the worker's
\* own thread raises.  A callback that raises leaves the try block.
frame_deliver(raises) ==
    /\ fpc = "deliver"
    /\ IF img # "none" /\ callback
       THEN /\ fpc' = IF raises THEN "except" ELSE "stamp"
            /\ consecutive_failures' =
                  IF raises THEN consecutive_failures ELSE 0
            /\ UNCHANGED capturing
       ELSE /\ consecutive_failures' = consecutive_failures + 1
            /\ IF consecutive_failures + 1 >= max_failures
               THEN /\ capturing' = FALSE
                    /\ fpc' = IF capture_thread = FrameWorker
                              THEN "except" ELSE "stamp"
               ELSE fpc' = "stamp" /\ UNCHANGED capturing
    /\ UNCHANGED <<notFrameVars, now, target_hwnd, capture_thread, callback,
                   shotVars, last_capture_time, frame_current_time,
                   attempt_at, attempts>>

\* _capture_loop: last_capture_time = current_time
frame_stamp ==
    /\ fpc = "stamp"
    /\ last_capture_time' = frame_current_time
    /\ fpc' = "test"
    /\ UNCHANGED <<notFrameVars, now, capturing, target_hwnd, capture_thread,
                   callback, shotVars, frame_current_time,
                   consecutive_failures, attempt_at, attempts>>

\* A faulty handler that lets the exception end the loop.
frame_except_exits ==
    /\ fpc = "except"
    /\ now' = now + except_sleep
    /\ fpc' = "done"
    /\ UNCHANGED <<notFrameVars, capturing, target_hwnd, capture_thread,
                   callback, shotVars, last_capture_time, frame_current_time,
                   consecutive_failures, attempt_at, attempts>>

\* _capture_loop: except Exception: print(...); time.sleep(0.1)
frame_except ==
    /\ fpc = "except"
    /\ now' = now + except_sleep
    /\ fpc' = "test"
    /\ UNCHANGED <<notFrameVars, capturing, target_hwnd, capture_thread,
                   callback, shotVars, last_capture_time, frame_current_time,
                   consecutive_failures, attempt_at, attempts>>

\* stop_capture by the owner of the engine: self.capturing = False
frame_stop_capture ==
    /\ fpc \notin {"none", "done"}
    /\ capturing
    /\ capturing' = FALSE
    /\ UNCHANGED <<notFrameVars, now, target_hwnd, capture_thread, callback,
                   frameVars>>

\* The capture engine alone with one session, its clock and its two capture
\* methods; a capture takes less than the frame time.
FrameNext ==
    \/ frame_start_capture
    \/ frame_begin
    \/ frame_test
    \/ frame_wait
    \/ \E pw \in BOOLEAN, mss \in BOOLEAN, took \in 0..(frame_time - 1) :
          frame_capture(pw, mss, took)
    \/ \E raises \in BOOLEAN : frame_deliver(raises)
    \/ frame_stamp
    \/ frame_except
    \/ frame_stop_capture

FrameInit ==
    /\ AppInit
    /\ controller_type = "any"
    /\ running = TRUE
    /\ ppc = "test"
    /\ xinput = XDisconnected
    /\ sdl = SDisconnected
    /\ state = EmptyState
    /\ LoopInit
    /\ Installed
    /\ FrameNone
    /\ FindNone
    /\ print_window_available \in BOOLEAN

FrameSpec == FrameInit /\ [][FrameNext]_vars

\* ============================================ find_xenia_window alone

\* Window titles and class names, and those the patterns of
\* find_xenia_window match: "xenia" in title.lower(), "Xenia" in title,
\* title.endswith(".xex"); "Direct3D" in class_name, the prefixes
\* "WindowsForms10" and "SDL_app", "MainWindow", "GLFW" in class_name.
Titles == {"", "Xenia Canary", "Default IME"}
XeniaTitles == {"Xenia Canary"}
ClassNames == {"MainWindow", "SDL_app", "IME"}
XeniaClassNames == {"MainWindow", "SDL_app"}

\* A faulty filter that takes any window of the process.
is_xenia_window_any(title, class_name) ==
    TRUE

\* find_xenia_window: is_xenia_window
is_xenia_window(title, class_name) ==
    \/ title \in XeniaTitles
    \/ class_name \in XeniaClassNames
    \/ title # ""

\* The windows of enumeration wins, by their handles (their places in the
\* enumeration), that the callback appends: those of the process that pass
\* the filter.
Candidates(wins, pid) ==
    {h \in DOMAIN wins :
        /\ wins[h].pid = pid
        /\ is_xenia_window(wins[h].title, wins[h].class_name)}

\* find_xenia_window(process_id) on the enumeration wins: the callback stops
\* the enumeration at the first window it appends; hwnds[0] if hwnds else
\* None.
find_xenia_window_in(wins, pid) ==
    IF Candidates(wins, pid) = {} THEN None ELSE Min(Candidates(wins, pid))

Window == [pid : Pids, title : Titles, class_name : ClassNames]

RECURSIVE Enumerations(_)
Enumerations(n) ==
    IF n = 0 THEN {<<>>}
    ELSE Enumerations(n - 1)
         \cup {Append(e, w) : e \in Enumerations(n - 1), w \in Window}

notFindVars == <<envVars, appVars, engVars, thrVars, histVars, dlgVars,
                 hwVars, running, ppc, state, caught, clockVars, askVars,
                 frameVars, installVars, spawns, timers>>

call_find_xenia_window ==
    /\ hwnds = NotCalled
    /\ hwnds' = find_xenia_window_in(windows, target_pid)
    /\ UNCHANGED <<notFindVars, windows, target_pid>>

FindNext == call_find_xenia_window

FindInit ==
    /\ AppInit
    /\ controller_type = "any"
    /\ running = TRUE
    /\ ppc = "test"
    /\ xinput = XDisconnected
    /\ sdl = SDisconnected
    /\ state = EmptyState
    /\ LoopInit
    /\ Installed
    /\ FrameNone
    /\ print_window_available = TRUE
    /\ windows \in Enumerations(MaxWindows)
    /\ target_pid \in Pids
    /\ hwnds = NotCalled

FindSpec == FindInit /\ [][FindNext]_vars

\* ================================================== launch_selected_rom

notInstallVars == <<envVars, appVars, engVars, thrVars, histVars, dlgVars,
                    hwVars, running, ppc, state, caught, clockVars, askVars,
                    frameVars, findVars, spawns, timers>>

\* What can be selected, and which catalogs layout.json can give.
Selections == Names \cup {""}
Catalogs == SUBSET Names

\* The installation stops being launchable in one respect while the
\* application runs: the selection is cleared, a reload of the catalog drops
\* the selected name, the executable or the content file is removed.
InstallChanges ==
    /\ Launchable
    /\ \E s \in Selections, c \in Catalogs, e \in BOOLEAN, f \in BOOLEAN :
          /\ Cardinality({k \in 1..4 :
                 <<s, c, e, f>>[k] # <<selected_name, hdd_content,
                                       exe_exists, content_exists>>[k]}) = 1
          /\ selected_name' = s
          /\ hdd_content' = c
          /\ exe_exists' = e
          /\ content_exists' = f
    /\ UNCHANGED notInstallVars

\* The application driven by keyboard and mouse, started on every selection,
\* catalog and state of the two files.
LaunchNext ==
    \/ KeyNext
    \/ InstallChanges

LaunchInit ==
    /\ AppInit
    /\ controller_type = "any"
    /\ running = TRUE
    /\ ppc = "test"
    /\ xinput = XDisconnected
    /\ sdl = SDisconnected
    /\ state = EmptyState
    /\ LoopInit
    /\ FrameNone
    /\ FindNone
    /\ print_window_available = TRUE
    /\ selected_name \in Selections
    /\ hdd_content \in Catalogs
    /\ exe_exists \in BOOLEAN
    /\ content_exists \in BOOLEAN

LaunchSpec == LaunchInit /\ [][LaunchNext]_vars

\* ======================================================== the two threads

\* The update of Back and Start held together.
BackStart == [a |-> FALSE, start |-> TRUE, back |-> TRUE, nav |-> 0]

\* The user launches with the mouse in the UI thread while the poll thread
\* handles updates of Back+Start: setup_window_capture and stop_game run in
\* two threads, on an emulator whose window comes up and stays.
RaceNext ==
    \/ click_launch
    \/ setup_window_capture("ui")
    \/ setup_found("ui")
    \/ position_window_for_capture("ui")
    \/ setup_show("ui")
    \/ setup_start("ui")
    \/ handle_controller_state(BackStart)
    \/ stop_game("poll")
    \/ stop_capture("poll", "stopcap", "join", "term")
    \/ stop_capture_join("poll", "join", "term")
    \/ stop_game_terminate("poll")
    \/ stop_game_kill("poll")
    \/ \E w \in Workers : _capture_loop(w)
    \/ \E p \in Pids : WindowAppears(p)
    \/ CooldownElapses

RaceSpec == Init /\ [][RaceNext]_vars

\* get_controller_state on every configuration and every pair of readings.
PadStateInit ==
    /\ AppInit
    /\ controller_type \in {"any", "xinput", "sdl"}
    /\ running = TRUE
    /\ ppc = "read"
    /\ xinput \in XReadings
    /\ sdl \in SdlReadings
    /\ state = EmptyState
    /\ LoopInit
    /\ Installed
    /\ FrameNone
    /\ FindNone
    /\ print_window_available = TRUE

PadStateNext == poll_read(FALSE)

PadStateSpec == PadStateInit /\ [][PadStateNext]_vars

\* ================================================================= claims

\* C1: at most one launched emulator process started by the application is
\* alive at any time; a launch never leaves an earlier live process behind
\* an overwritten handle.
C1_OneProcess ==
    Cardinality(LiveProcs) <= 1

\* C2: at most one capture worker thread is alive at any time.
C2_OneWorker ==
    Cardinality(LiveWorkers) <= 1

\* C3: a launch entered from the idle state and not interleaved with any
\* other launch or stop, on locating the window, ends by starting capture
\* with exactly one live process (the one xenia_process refers to), exactly
\* one live capture worker (the engine's capture_thread) reading that
\* process's window, both capture flags true and the game displayed.
C3_LaunchFromIdle ==
    [][\A t \in Threads :
          (pc[t] = "start" /\ pc'[t] # "start" /\ clean[t]) =>
              /\ xenia_process' \in Pids
              /\ LiveProcs' \subseteq {xenia_process'}
              /\ LiveWorkers' = {capture_thread'}
              /\ xenia_hwnd' = xenia_process'
              /\ target_hwnd' = xenia_hwnd'
              /\ is_capturing'
              /\ capturing'
              /\ display' = "game"]_vars

\* C3 witness: the UI thread is back from a launch that began idle, with the
\* emulator running and its capture session active.
C3_Witness ==
    /\ clean["ui"]
    /\ pc["ui"] = "idle"
    /\ is_capturing
    /\ capturing
    /\ xenia_process # None
    /\ proc[xenia_process] = "running"
    /\ capture_thread # None
    /\ wpc[capture_thread] = "capture"

\* C4: once the launched process has exited while the application is
\* capturing, the monitor tears the session down: with the UI thread at rest
\* the next tick must see a change from running to not running.
C4_MonitorTearsDown ==
    (/\ is_capturing
     /\ xenia_process # None
     /\ proc[xenia_process] = "exited"
     /\ pc["ui"] = "idle") => is_xenia_running

\* C5: a worker that has counted max_failures consecutive failures has
\* stopped the engine: it makes no further capture attempt and counts no
\* further failure.
C5_StopOnce ==
    [][\A w \in Workers :
          fails[w] >= max_failures =>
              (fails'[w] = fails[w] /\ wpc'[w] # "capture")]_vars

\* C6: when the engine has stopped itself on the failure threshold and its
\* worker is gone, the application, at rest with the emulator still running,
\* is no longer in the capturing state and shows the menu.
C6_FailurePropagates ==
    \A w \in Workers :
        (/\ capture_thread = w
         /\ wpc[w] = "dead"
         /\ fails[w] >= max_failures
         /\ ~capturing
         /\ \A t \in Threads : pc[t] = "idle"
         /\ check_xenia_process
         /\ is_xenia_running)
        => (~is_capturing /\ display = "menu")

\* C7: capture is started only after the window was located and
\* position_window_for_capture succeeded on it.
C7_PositionedBeforeCapture ==
    [][\A t \in Threads :
          (pc[t] = "start" /\ pc'[t] # "start") => posOk[t]]_vars

\* C8: stop_capture called twice in a row never raises in the caller and
\* leaves capturing false, whatever the engine was doing.
C8_StopTwice ==
    /\ pc["ui"] # "raised"
    /\ pc["ui"] \in {"stopped", "stopped2"} => ~capturing

\* C8 witness: the second stop_capture in a row has returned while a worker
\* is still inside a capture attempt.
C8_Witness ==
    /\ pc["ui"] = "stopped2"
    /\ \E w \in Workers : wpc[w] = "capture"

\* C9: stopping is cooperative and bounded: stop_capture ends no worker by
\* itself, every worker that is alive while capturing is false exits unless
\* capture is started again first, and a caller waiting in join returns.
C9_CooperativeStop ==
    /\ \A w \in Workers :
          (~capturing /\ w \in LiveWorkers) ~> (wpc[w] = "dead" \/ capturing)
    /\ (pc["ui"] \in {"join", "join2"}) ~> (pc["ui"] \notin {"join", "join2"})
    /\ [][pc'["ui"] # pc["ui"] => wpc' = wpc]_vars

\* C9 witness: the caller waits in stop_capture's join, the flag is cleared
\* and the worker is in the middle of an iteration.
C9_Witness ==
    /\ pc["ui"] = "join"
    /\ ~capturing
    /\ capture_thread # None
    /\ wpc[capture_thread] = "capture"

\* C10: no step of a background thread (the controller poll thread) changes
\* the application's UI or session state.
C10_BackgroundLeavesUiState ==
    [][PollStep =>
          UNCHANGED <<xenia_process, xenia_hwnd, is_capturing, display,
                      focus_index>>]_vars

\* C11: while the handle is kept, the search for a window that never shows
\* ends only with its 30th failed attempt, reported as "Window Not Found":
\* no earlier attempt ends it and no 31st attempt is made.
C11_ExactlyThirtyAttempts ==
    [][\A t \in Threads :
          pc[t] = "find" =>
              /\ attempt[t] < find_attempts
              /\ attempt'[t] # attempt[t] /\ pc'[t] = "find"
                     => attempt'[t] = attempt[t] + 1
              /\ pc'[t] \notin {"find", "found"} /\ xenia_process # None
                     => /\ attempt[t] = find_attempts - 1
                        /\ find_xenia_window(xenia_process) = None
                        /\ popup' = "Window Not Found"]_vars

\* C11 witness: the search has ended without a window, the popup is shown.
C11_Witness ==
    /\ popup = "Window Not Found"
    /\ pc["ui"] = "idle"
    /\ xenia_process # None
    /\ xenia_hwnd = None
    /\ ~hasWindow[xenia_process]

C13_HandleClearedOnExit ==
    [][(is_xenia_running /\ ~is_xenia_running') => pc'["ui"] = "stop"]_vars

\* C14: in mode "any" with both backends connected, every button of the
\* state that was read is pressed exactly when XInput or SDL reports it
\* pressed.
C14_ButtonsAreOr ==
    (ppc = "callback" /\ controller_type = "any"
        /\ xinput.connected /\ sdl.connected)
    => /\ DOMAIN state.buttons = ButtonNames
       /\ \A b \in ButtonNames :
             state.buttons[b] <=> (b \in xinput.wButtons \/ b \in sdl.button)

\* A merged state with a button that only XInput holds and is pressed.
C14_Witness ==
    /\ ppc = "callback" /\ controller_type = "any"
    /\ xinput.connected /\ sdl.connected
    /\ \E b \in ButtonNames :
          b \in xinput.wButtons /\ b \notin sdl.button /\ state.buttons[b]

\* C15: in mode "any" with both backends connected, every axis of the state
\* that was read is SDL's value when that is strictly larger in absolute
\* value than XInput's and XInput's value otherwise (a tie keeps XInput's);
\* it is always one of the two.
C15_AxisLargerMagnitude ==
    (ppc = "callback" /\ controller_type = "any"
        /\ xinput.connected /\ sdl.connected)
    => /\ DOMAIN state.axes = AxisNames
       /\ \A a \in AxisNames :
             LET A == _get_xinput_state(xinput).axes[a]
                 B == _get_sdl_state(sdl).axes[a]
             IN  /\ state.axes[a] \in {A, B}
                 /\ Less(Abs(A), Abs(B)) => state.axes[a] = B
                 /\ ~Less(Abs(A), Abs(B)) => state.axes[a] = A

\* A merged state with an axis XInput moves and SDL moves further, or as far
\* the other way.
C15_Witness ==
    /\ ppc = "callback" /\ controller_type = "any"
    /\ xinput.connected /\ sdl.connected
    /\ \E a \in AxisNames :
          LET A == _get_xinput_state(xinput).axes[a]
              B == _get_sdl_state(sdl).axes[a]
          IN  /\ A.n # 0
              /\ \/ Less(Abs(A), Abs(B)) /\ state.axes[a] = B
                 \/ Same(Abs(A), Abs(B)) /\ ~Same(A, B) /\ state.axes[a] = A

StickValue(a) ==
    IF a \in {"lefty", "righty"}
    THEN Rat(0 - xinput.thumb[a], StickScale)
    ELSE Rat(xinput.thumb[a], StickScale)

\* C17: the deadzone filter yields exactly 0.0 for a reading whose magnitude
\* is below the deadzone and the reading itself at or above it, the deadzone
\* and its negation included; a state read from XInput alone has its four
\* stick axes filtered and its trigger axes as they were read.
C17_Deadzone ==
    /\ _apply_deadzone(deadzone, deadzone) = deadzone
    /\ _apply_deadzone(Neg(deadzone), deadzone) = Neg(deadzone)
    /\ (ppc = "callback" /\ state.type = "xinput" /\ ~sdl.connected)
       => /\ \A a \in StickNames :
                state.axes[a] = IF Less(Abs(StickValue(a)), deadzone)
                                THEN Zero ELSE StickValue(a)
          /\ \A a \in TriggerNames :
                xinput.trigger[a] \in 1..127
                   => state.axes[a] = Rat(xinput.trigger[a], TriggerScale)

\* A state read from XInput alone with a stick just inside the deadzone read
\* as 0, one just outside it read as it is, or a trigger inside it read as
\* it is.
C17_Witness ==
    /\ ppc = "callback" /\ state.type = "xinput" /\ ~sdl.connected
    /\ \/ xinput.thumb["leftx"] = -6553 /\ state.axes["leftx"] = Zero
       \/ /\ xinput.thumb["lefty"] = -6554
          /\ state.axes["lefty"] = Rat(6554, StickScale)
       \/ /\ xinput.trigger["lefttrigger"] = 25
          /\ Less(state.axes["lefttrigger"], deadzone)
          /\ Less(Zero, state.axes["lefttrigger"])

\* C18: every stick axis of a state that was read lies in [-1, 1] and every
\* trigger axis in [0, 1], whatever the hardware reads.
C18_AxesInRange ==
    ppc = "callback"
    => \A a \in DOMAIN state.axes :
          IF a \in StickNames
          THEN /\ ~Less(state.axes[a], Rat(-1, 1))
               /\ ~Less(Rat(1, 1), state.axes[a])
          ELSE /\ ~Less(state.axes[a], Zero)
               /\ ~Less(Rat(1, 1), state.axes[a])

\* C19: while the emulated game holds the input focus (a capture session is
\* shown) the controller manager is disabled and every polled state is the
\* empty one, so no update the handler is called with makes it act.
C19_DisabledWhileCapturing ==
    [][(is_capturing /\ pc["poll"] = "idle") => pc'["poll"] = "idle"]_vars

\* C20: an exception raised in a tick of the poll loop (in the rescan, the
\* read or the callback) is caught, the loop sleeps and goes on to its
\* test; the loop ends only with the running flag false.
C20_BadTickSwallowed ==
    [][/\ (ppc = "except" /\ ppc' # ppc) => ppc' = "sleep"
       /\ (ppc = "sleep" /\ ppc' # ppc) => ppc' = "test"
       /\ (ppc = "test" /\ ppc' # ppc /\ running)
             => ppc' \in {"scan", "read"}
       /\ (ppc # "done" /\ ppc' = "done") => ppc = "test" /\ ~running]_vars

\* A tick that delivers a state after an earlier tick raised.
C20_Witness ==
    caught /\ running /\ ppc = "callback" /\ state.connected

\* C21: a tick of the poll loop rescans exactly when no rescan has been
\* made yet or more than scan_interval has elapsed since the tick of the
\* last one, and a rescan is dated with the time of its tick; no other step
\* changes that date.
C21_RescanSchedule ==
    [][/\ (ppc = "test" /\ running /\ ppc' # ppc)
             => /\ last_scan_time = 0 => ppc' = "scan"
                /\ ppc' = "scan" <=> now - last_scan_time > scan_interval
                /\ ppc' \in {"scan", "read"}
       /\ (ppc = "scan" /\ ppc' = "read")
             => /\ last_scan_time' = current_time
                /\ scanned' # {}
       /\ last_scan_time' # last_scan_time => ppc = "scan" /\ ppc' = "read"
       /\ (ppc' = "scan" /\ ppc' # ppc) => ppc = "test" /\ running]_vars

\* A tick that rescans a second time, scan_interval and one unit after the
\* tick of the first rescan.
C21_Witness ==
    /\ ppc = "scan"
    /\ last_scan_time >= StartTime
    /\ current_time = last_scan_time + scan_interval + 1

\* C22: a capture tries PrintWindow first, when it is available, and its
\* image is the result when it gives one; MSS is tried exactly when
\* PrintWindow is unavailable or gave none; the failure count goes up
\* exactly when neither gave an image.
C22_PrintWindowThenMss ==
    [][fpc = "deliver" /\ fpc' # fpc
          => /\ print_window_available => tried[1] = "printwindow"
             /\ img = "printwindow" <=> (print_window_available /\ pw_ok)
             /\ (\E i \in DOMAIN tried : tried[i] = "mss")
                   <=> ~(print_window_available /\ pw_ok)
             /\ img = "mss"
                   <=> (~(print_window_available /\ pw_ok) /\ mss_ok)
             /\ consecutive_failures' = consecutive_failures + 1
                   <=> (~(print_window_available /\ pw_ok) /\ ~mss_ok)]_vars

\* A frame that PrintWindow failed to capture and MSS captured is delivered:
\* the failure count is back to 0.
C22_Witness ==
    /\ fpc = "stamp"
    /\ print_window_available /\ ~pw_ok /\ mss_ok
    /\ tried = <<"printwindow", "mss">>
    /\ img = "mss"
    /\ consecutive_failures = 0
    /\ attempts > 1

\* C23: a step of a capture worker leaves target_hwnd, the callback, the
\* capture thread, is_capturing, the process handle, the window handle and
\* what is displayed as they are; it changes nothing but its own failure
\* count and position and the capturing flag, which it only clears.
C23_LoopFrame ==
    [][\A w \in Workers :
          (wpc[w] # "none" /\ wpc'[w] # wpc[w])
             => /\ UNCHANGED <<target_hwnd, callback, capture_thread>>
                /\ UNCHANGED <<is_capturing, xenia_process, xenia_hwnd,
                               is_xenia_running, display, proc>>
                /\ \A v \in Workers \ {w} :
                      fails'[v] = fails[v] /\ wpc'[v] = wpc[v]
                /\ capturing' => capturing]_vars

\* A worker has stopped the engine after max_failures failures: the target
\* window, the callback and the session the application shows are still
\* there.
C23_Witness ==
    \E w \in Workers :
       /\ fails[w] >= max_failures
       /\ wpc[w] = "dead"
       /\ ~capturing
       /\ target_hwnd # None /\ callback
       /\ is_capturing /\ xenia_process # None /\ xenia_hwnd # None

\* C24: with captures that take less than the frame time, a capture attempt
\* starts at least one frame time after the start of the attempt before it.
C24_FrameRate ==
    [][(fpc = "capture" /\ fpc' = "deliver" /\ attempts > 0)
          => now - attempt_at >= frame_time]_vars

\* C25: what find_xenia_window returns is a window of the target process
\* with a title or a known class name, the first such window of the
\* enumeration, and None exactly when there is no such window.
C25_FindWindow ==
    hwnds # NotCalled
    => LET Fits(h) ==
               /\ windows[h].pid = target_pid
               /\ \/ windows[h].title # ""
                  \/ windows[h].class_name \in {"MainWindow", "SDL_app"}
       IN  /\ hwnds # None
              => /\ hwnds \in DOMAIN windows
                 /\ Fits(hwnds)
                 /\ \A h \in DOMAIN windows : h < hwnds => ~Fits(h)
           /\ hwnds = None => \A h \in DOMAIN windows : ~Fits(h)

\* The first window of the process that fits is returned: not the untitled
\* window of another class before it, nor the titled one after it.
C25_Witness ==
    /\ hwnds = 2
    /\ Len(windows) = 3
    /\ windows[1].pid = target_pid
    /\ windows[1].title = "" /\ windows[1].class_name = "IME"
    /\ windows[2].pid = target_pid /\ windows[2].title = ""
    /\ windows[3].pid = target_pid /\ windows[3].title # ""

\* C26: the failure count of a capture worker is the number of failed
\* captures since its last frame: a capture of a window that can be read
\* sets it to 0, a failed one adds 1; a worker clears the capturing flag only
\* in a step that takes its count to max_failures or more.
C26_TenConsecutiveFailures ==
    [][\A w \in Workers :
          (wpc[w] # "none" /\ wpc'[w] # wpc[w])
             => /\ IF wpc[w] = "capture"
                   THEN fails'[w] = IF hasWindow[target_hwnd]
                                    THEN 0 ELSE fails[w] + 1
                   ELSE fails'[w] = fails[w]
                /\ (capturing /\ ~capturing')
                      => /\ wpc[w] = "capture"
                         /\ ~hasWindow[target_hwnd]
                         /\ fails'[w] >= max_failures]_vars

\* After max_failures - 1 failed captures in a row the engine still runs
\* and the window can be read again: the next capture resets the count.
C26_Witness ==
    \E w \in Workers :
       /\ wpc[w] = "capture"
       /\ fails[w] = max_failures - 1
       /\ capturing
       /\ capture_thread = w
       /\ hasWindow[target_hwnd]

\* C27: an exception raised in an iteration of the capture loop is caught:
\* the loop sleeps and goes on to its test, which starts the next iteration
\* when the engine is capturing; the loop ends only at that test, with the
\* engine not capturing.
C27_BadFrameSwallowed ==
    [][/\ (fpc = "except" /\ fpc' # fpc)
             => fpc' = "test" /\ now' = now + except_sleep
       /\ (fpc = "test" /\ fpc' # fpc /\ capturing /\ target_hwnd # None)
             => fpc' = "time"
       /\ (fpc # "done" /\ fpc' = "done") => fpc = "test" /\ ~capturing]_vars

\* A capture attempt made after an iteration that raised: it is the sleep of
\* the except clause later than the last completed iteration.
C27_Witness ==
    /\ fpc = "deliver"
    /\ capturing
    /\ attempts > 1
    /\ attempt_at - last_capture_time >= except_sleep

\* C28: in the mode "xinput" SDL is never scanned or queried and no state is
\* tagged 'sdl'; in the mode "sdl" XInput is never scanned or queried and no
\* state is tagged 'xinput'; in the mode "any" a rescan scans both and a
\* read queries both.
C28_ModeRestrictsBackends ==
    /\ controller_type = "xinput"
          => "sdl" \notin scanned \cup queried /\ state.type # "sdl"
    /\ controller_type = "sdl"
          => "xinput" \notin scanned \cup queried /\ state.type # "xinput"
    /\ (controller_type = "any" /\ last_scan_time # 0)
          => scanned = {"xinput", "sdl"}
    /\ (controller_type = "any" /\ ppc = "callback")
          => queried = {"xinput", "sdl"}

\* In the mode "xinput", with an SDL controller plugged in and no XInput
\* controller, a rescan and a read have given the disconnected state.
C28_Witness ==
    /\ controller_type = "xinput"
    /\ sdl.connected /\ ~xinput.connected
    /\ ppc = "callback"
    /\ last_scan_time # 0
    /\ scanned = {"xinput"} /\ queried = {"xinput"}
    /\ ~state.connected

\* C29: an update handled while is_capturing is true enters stop_game
\* exactly when Back and Start are both pressed and the cooldown has
\* elapsed; it moves no focus, activates and launches nothing, and keeps
\* nothing of the update to act on later.
C29_OnlyExitWhileCapturing ==
    [][/\ \A b \in Buttons :
             (is_capturing /\ handle_controller_state(b))
                => (pc'["poll"] = "stop" <=> (b.back /\ b.start /\ ~cooling))
       /\ (is_capturing /\ pc["poll"] = "idle")
             => /\ focus_index' = focus_index
                /\ btn' = btn
                /\ pc'["poll"] \in {"idle", "stop"}
                /\ LiveProcs' \subseteq LiveProcs
                /\ xenia_process' \in {xenia_process, None}]_vars

\* The handler has entered stop_game from a capture session that is shown.
C29_Witness ==
    /\ pc["poll"] = "stop"
    /\ is_capturing
    /\ display = "game"
    /\ ~cooling
    /\ btn = NoButtons

\* C30: an update that arrives while the cooldown of the last action runs
\* does nothing: no navigation, no activation, no launch, no set-default, no
\* stop; an update that moves the focus starts the cooldown.
C30_Cooldown ==
    [][/\ (cooling /\ pc["poll"] = "idle")
             => /\ pc'["poll"] = "idle"
                /\ focus_index' = focus_index
                /\ btn' = btn
                /\ LiveProcs' \subseteq LiveProcs
                /\ xenia_process' \in {xenia_process, None}
       /\ (pc["poll"] = "idle" /\ focus_index' # focus_index) => cooling']_vars

\* The cooldown runs while a capture session is shown: an update with Back
\* and Start is not acted on until it has elapsed.
C30_Witness ==
    /\ cooling
    /\ pc["poll"] = "idle"
    /\ is_capturing
    /\ display = "game"
    /\ focus_index # launchButton

\* C31: with an empty or unknown selection, a missing executable or a
\* missing content file, no process is spawned and no thread enters
\* setup_window_capture; a launch command then leaves the processes,
\* xenia_process, xenia_hwnd, is_capturing and the capture engine as they
\* are, shows no popup for a bad selection, "Executable Not Found" for a
\* missing executable and "Content Not Found" for a missing content file;
\* and these two popups come up for no other reason.
C31_RejectedLaunch ==
    [][/\ ~Launchable
             => /\ \A p \in Pids : proc[p] = "none" => proc'[p] = "none"
                /\ \A t \in Threads : pc'[t] = "find" => pc[t] = "find"
       /\ ((click_launch \/ key_return) /\ ~Launchable)
             => /\ UNCHANGED <<envVars, xenia_process, xenia_hwnd,
                               is_capturing, engVars>>
                /\ popup' = IF ~SelectionValid THEN popup
                            ELSE IF ~exe_exists THEN "Executable Not Found"
                            ELSE "Content Not Found"
       /\ (popup' # popup /\ popup' = "Executable Not Found")
             => SelectionValid /\ ~exe_exists
       /\ (popup' # popup /\ popup' = "Content Not Found")
             => SelectionValid /\ exe_exists /\ ~content_exists]_vars

\* A launch was refused for its missing content file while the earlier game
\* is captured: its process, handles and worker are all still there.
C31_Witness ==
    /\ popup = "Content Not Found"
    /\ ~content_exists
    /\ is_capturing
    /\ capturing
    /\ xenia_process # None
    /\ proc[xenia_process] = "running"
    /\ xenia_hwnd = xenia_process
    /\ LiveWorkers # {}

\* C32: one controller update handled in menu mode spawns at most one
\* emulator process, whatever buttons it holds and whichever widget has the
\* focus.
C32_OneSpawnPerUpdate ==
    spawns <= 1

\* C33: whenever is_capturing is true, a process handle is held and a
\* located window handle is set.
C33_CapturingHasHandles ==
    is_capturing => (xenia_process # None /\ xenia_hwnd # None)

\* C34: with stop_game returned and no launch or stop in progress in either
\* thread, the capture engine is not running while is_capturing is false.
C34_StoppedEngine ==
    (~is_capturing /\ \A t \in Threads : pc[t] = "idle") => ~capturing

\* C35: after stop_polling has returned the poll thread invokes the callback
\* no more, reads no SDL handle that stop_polling closed and calls SDL no
\* more in a rescan.
C35_StopPollingSafe ==
    late = {}

\* C36: a worker that has reached max_failures and called stop_capture is
\* never in the loop's exception handler: its call returned, and it leaves
\* through the loop test.
C36_SelfStopReturns ==
    \A w \in Workers :
        (fails[w] >= max_failures /\ capture_thread = w) => wpc[w] # "except"

\* C37: the monitor's timer chain is single and unbroken: one timer is
\* pending except while the monitor's own invocation runs its teardown in the
\* UI thread, and no timer is pending then; so every invocation, the ones
\* that tear down included, has scheduled exactly one next check when it
\* ends.
C37_OneMonitorTimer ==
    timers = IF pc["ui"] \in {"stop", "stopcap", "join", "term", "kill"}
             THEN 0 ELSE 1

\* A monitor invocation has torn a captured game down and returned: the
\* process it saw ended is cleared, the menu is shown, the next check is
\* pending.
C37_Witness ==
    /\ timers = 1
    /\ pc["ui"] = "idle"
    /\ xenia_process = None
    /\ ~is_xenia_running
    /\ ~is_capturing
    /\ display = "menu"
    /\ \E p \in Pids : proc[p] = "exited"

====
